---- MODULE Spec2Model ----
(***************************************************************************)
(* Order lifecycle and inventory of the restaurant server.                 *)
(*                                                                         *)
(* The state is the SQLite database (ingredients.availability, orders,     *)
(* order_ingredients, ingredient_incompatibilities) plus, for every        *)
(* request in flight, the position of its async handler and its locals.    *)
(* Node runs one handler at a time and switches only at an `await`, so     *)
(* every action below is the code between two awaits of one request:       *)
(* the database statement that the await completes, followed by the        *)
(* synchronous code up to the next await (or up to the response).          *)
(*                                                                         *)
(* Prices are kept in cents (the code adds JS numbers such as 0.50).       *)
(* Ingredient names are unique in the seed, so the name lists `requires`   *)
(* and `incompatible` built by getAllIngredients are kept as id sets.      *)
(***************************************************************************)
EXTENDS Integers, Sequences, FiniteSets, TLC

\* ------------------------------------------------------------ bounds
\* longest `ingredients` array of a POST /api/orders body
MaxLen == 2
\* direct calls of the ingredient DAO: highest starting availability, highest
\* quantity, number of calls of one behaviour
MaxStock == 2
MaxQty == 2
MaxCalls == 2
\* number of requests (POST /api/orders, DELETE /api/orders/:id) of one behaviour
MaxRequests == 2
\* longest `ingredients` array of the bodies without repeated ids
MaxWide == 4

\* concurrent clients; client p is logged in as user p
Procs == {1, 2}
\* ingredient ids a request body is built from; 12 is no row of ingredients
ReqIds == {2, 4, 5, 8, 12}
\* dish ids a request body is built from
ReqDishes == {1}

\* ------------------------------------------------------------ catalog
IngIds == 1..11

\* ingredients whose availability column is not NULL
Limited == {1, 3, 4, 6, 8}

\* availability after initDB (ham already reduced to 1 by the sample order)
SeedAvailability == (1 :> 3) @@ (3 :> 3) @@ (4 :> 1) @@ (6 :> 2) @@ (8 :> 1)

\* availability as inserted by restaurant.sql
SqlAvailability == (1 :> 3) @@ (3 :> 3) @@ (4 :> 2) @@ (6 :> 2) @@ (8 :> 1)

\* unit prices, in cents
Price == (1 :> 100) @@ (2 :> 50) @@ (3 :> 80) @@ (4 :> 120) @@ (5 :> 70) @@ (6 :> 150)
         @@ (7 :> 100) @@ (8 :> 150) @@ (9 :> 120) @@ (10 :> 40) @@ (11 :> 30)

\* ingredient_dependencies rows <<ingredient_id, required_ingredient_id>>
Dependencies == {<<2, 5>>, <<9, 1>>, <<1, 2>>, <<6, 5>>}

\* ingredient_incompatibilities rows as restaurant.sql inserts them (one direction)
SqlIncompatibilities == {<<7, 3>>, <<7, 2>>, <<4, 3>>, <<5, 8>>}

\* ingredient_incompatibilities rows as initDB inserts them (each pair both ways)
SeedIncompatibilities == SqlIncompatibilities \cup {<<r[2], r[1]>> : r \in SqlIncompatibilities}

Sizes == {"small", "medium", "large"}
\* sizes a request body is built from
ReqSizes == {"small"}

\* { small: 3, medium: 5, large: 7 }[size]
MaxIngredients(size) == CASE size = "small" -> 3 [] size = "medium" -> 5 [] size = "large" -> 7

\* { small: 5, medium: 7, large: 9 }[size], in cents
SizePrice(size) == CASE size = "small" -> 500 [] size = "medium" -> 700 [] size = "large" -> 900

\* the sample orders initDB inserts: rows of orders and of order_ingredients
SeedOrders == <<[user_id |-> 1, dish_id |-> 1, size |-> "small", total |-> 600, cancelled |-> 0],
                [user_id |-> 1, dish_id |-> 2, size |-> "small", total |-> 550, cancelled |-> 0],
                [user_id |-> 2, dish_id |-> 1, size |-> "medium", total |-> 820, cancelled |-> 0],
                [user_id |-> 2, dish_id |-> 3, size |-> "large", total |-> 1050, cancelled |-> 0]>>

SeedOrderIngredients == {<<1, 2>>, <<1, 5>>, <<2, 2>>, <<2, 5>>, <<3, 4>>, <<4, 2>>, <<4, 5>>}

\* ------------------------------------------------------------ state
VARIABLES
  availability,            \* ingredients.availability of the limited ingredients
  incompatibilities,       \* rows of ingredient_incompatibilities
  orders,                  \* rows of orders, indexed by id (AUTOINCREMENT)
  order_ingredients,       \* rows <<order_id, ingredient_id>> of order_ingredients
  pc,                      \* per client: the await its handler is suspended at
  req,                     \* per client: the request being served and its locals
  resp,                    \* per client: HTTP status of its last response (0: none yet)
  releases,                \* per order: UPDATEs of restoreIngredientAvailability run for it
  reserved,                \* <<order_id, ingredient_id>> for which updateIngredientAvailability returned true
  refused,                 \* orders for which updateIngredientAvailability returned false
  requests,                \* requests received so far
  ingredients,             \* OrderConfigurator: the availability figures of its last API.getIngredients()
  selectedIngredients,     \* OrderConfigurator: array of the selected ingredient ids
  selectedSize,            \* OrderConfigurator: the selected size
  constraintError,         \* OrderConfigurator: what the last toggle or size change was refused for
  fetch,                   \* OrderConfigurator: the API.getIngredients() call in flight and the selection it captured
  toggled,                 \* OrderConfigurator: the id handleIngredientToggle was last called with (0: the last event was no toggle)
  table,                   \* ingredient DAO called on its own: availability column of the rows under test
  call,                    \* ingredient DAO called on its own: the call in progress
  log,                     \* ingredient DAO called on its own: the calls that returned
  requires,                \* addRequiredIngredients run on its own: per ingredient, what its `requires` names
  asked,                   \* addRequiredIngredients run on its own: the arguments of the outermost call
  frames,                  \* addRequiredIngredients run on its own: the calls not yet returned, innermost last
  currentIngredients,      \* addRequiredIngredients run on its own: the array the calls share
  visited                  \* addRequiredIngredients run on its own: the Set the calls share

\* the state of the order configurator page
client == <<ingredients, selectedIngredients, selectedSize, constraintError, fetch, toggled>>

\* the state of the direct calls of the ingredient DAO
dao == <<table, call, log>>

\* the state of the run of addRequiredIngredients on its own
walk == <<requires, asked, frames, currentIngredients, visited>>

vars == <<availability, incompatibilities, orders, order_ingredients, pc, req, resp, releases,
          reserved, refused, requests, client, dao, walk>>

db == <<availability, incompatibilities, orders, order_ingredients>>

\* the record of what the DAO calls did; no action reads it
history == <<releases, reserved, refused>>

\* locals of a handler. `totp` and `sawCancelled` record what the DELETE handler
\* was given (req.session.method, order.cancelled); it does not read them again
NoReq == [kind |-> "none", ids |-> <<>>, selected |-> {}, dish_id |-> 0, size |-> "", total |-> 0,
          orderId |-> 0, read |-> 0, todo |-> {}, totp |-> FALSE, sawCancelled |-> FALSE]

\* the ingredients arrays of the request bodies: every array over ReqIds up to MaxLen
RECURSIVE ArraysUpTo(_)
ArraysUpTo(n) == IF n = 0 THEN {<<>>}
                 ELSE LET shorter == ArraysUpTo(n - 1)
                      IN shorter \cup {Append(a, i) : a \in {s \in shorter : Len(s) = n - 1}, i \in ReqIds}

Range(s) == {s[k] : k \in 1..Len(s)}


\* ------------------------------------------------------------ POST /api/orders: validation
\* ingredientsData.filter(ing => ingredients.includes(ing.id)): `includes` compares
\* with strict equality, and check('ingredients.*').isInt() accepts the numeric
\* strings of a body such as {"ingredients": ["4"]} without converting them, so
\* an array of strings selects no catalog row
SelectedIngredients(ids, text) == IF text THEN {} ELSE {i \in IngIds : i \in Range(ids)}

\* ing.requires of getAllIngredients
Requires(i) == {d[2] : d \in {x \in Dependencies : x[1] = i}}

\* ing.incompatible of getAllIngredients
IncompatibleWith(i, inc) == {r[2] : r \in {x \in inc : x[1] = i}}

\* selectedIngredients.length > maxIngredients
TooMany(selected, size) == Cardinality(selected) > MaxIngredients(size)

\* ingredient.availability !== null && ingredient.availability <= 0
SoldOut(i, avail) == i \in Limited /\ avail[i] <= 0

\* variant: the handler without its dependency check
MissingRequiredUnchecked(i, selected) == FALSE

\* some name of ingredient.requires is not in selectedNames
MissingRequired(i, selected) == \E r \in Requires(i) : r \notin selected

\* some name of ingredient.incompatible is in selectedNames
HasIncompatible(i, selected, inc) == \E x \in IncompatibleWith(i, inc) : x \in selected

\* the 422 the handler answers with, in the order of its checks, or "ok"
Validate(selected, size, avail, inc) ==
  IF TooMany(selected, size) THEN "size"
  ELSE IF \E i \in selected : SoldOut(i, avail) THEN "availability"
  ELSE LET bad == {i \in selected : MissingRequired(i, selected) \/ HasIncompatible(i, selected, inc)}
       IN IF bad = {} THEN "ok"
          ELSE LET first == CHOOSE i \in bad : \A j \in bad : i <= j
               IN IF MissingRequired(first, selected) THEN "requires" ELSE "incompatible"

RECURSIVE SumPrice(_)
SumPrice(S) == IF S = {} THEN 0 ELSE LET i == CHOOSE x \in S : TRUE IN Price[i] + SumPrice(S \ {i})

\* sizePrice + selectedIngredients.reduce((sum, ing) => sum + ing.price, 0)
Total(selected, size) == SizePrice(size) + SumPrice(selected)

\* ------------------------------------------------------------ helpers
\* the handler of client p sends its response and ends; its locals are gone
Respond(p, code) ==
  /\ resp' = [resp EXCEPT ![p] = code]
  /\ pc' = [pc EXCEPT ![p] = "idle"]
  /\ req' = [req EXCEPT ![p] = NoReq]

\* the handler of client p suspends at its next await
Await(p, at, r) ==
  /\ pc' = [pc EXCEPT ![p] = at]
  /\ req' = [req EXCEPT ![p] = r]
  /\ UNCHANGED resp

OrderIds == 1..Len(orders)

\* getOrderIngredients: the join drops order_ingredients rows without an ingredient
OrderIngredients(o) == {i \in IngIds : <<o, i>> \in order_ingredients}


\* ------------------------------------------------------------ POST /api/orders
\* the request bodies that pass the express-validator checks
Bodies == [dish_id : ReqDishes, size : ReqSizes, ingredients : ArraysUpTo(MaxLen), text : BOOLEAN]

\* the handler up to its first write: getAllIngredients, the checks, the total
PostOrders(p, body) ==
  /\ pc[p] = "idle"
  /\ requests < MaxRequests
  /\ requests' = requests + 1
  /\ LET selected == SelectedIngredients(body.ingredients, body.text)
         v == Validate(selected, body.size, availability, incompatibilities)
         r == [NoReq EXCEPT !.kind = "post", !.ids = body.ingredients, !.selected = selected,
                            !.dish_id = body.dish_id, !.size = body.size]
     IN IF v # "ok"
        THEN Respond(p, 422)
        ELSE Await(p, "createOrder", [r EXCEPT !.total = Total(selected, body.size)])
  /\ UNCHANGED <<db, history>>
  /\ UNCHANGED <<client, dao, walk>>

\* the next iteration of createOrder's loop, or its return and the 201
NextIngredient(p, r) ==
  LET n == [r EXCEPT !.ids = Tail(r.ids)]
  IN IF n.ids = <<>> THEN Respond(p, 201) ELSE Await(p, "link", n)

\* INSERT INTO orders ... cancelled = 0
CreateOrder(p) ==
  /\ pc[p] = "createOrder"
  /\ orders' = Append(orders, [user_id |-> p, dish_id |-> req[p].dish_id, size |-> req[p].size,
                               total |-> req[p].total, cancelled |-> 0])
  /\ releases' = Append(releases, 0)
  /\ LET r == [req[p] EXCEPT !.orderId = Len(orders) + 1, !.selected = {}, !.dish_id = 0,
                               !.size = "", !.total = 0]
     IN IF r.ids = <<>> THEN Respond(p, 201) ELSE Await(p, "link", r)
  /\ UNCHANGED <<availability, incompatibilities, order_ingredients, reserved, refused, requests>>
  /\ UNCHANGED <<client, dao, walk>>

\* INSERT INTO order_ingredients (order_id, ingredient_id); the primary key
\* (order_id, ingredient_id) rejects a repeated id, the error reaches the
\* handler's catch and the answer is 503
LinkIngredient(p) ==
  /\ pc[p] = "link"
  /\ LET row == <<req[p].orderId, Head(req[p].ids)>>
     IN IF row \in order_ingredients
        THEN /\ Respond(p, 503)
             /\ UNCHANGED order_ingredients
        ELSE /\ order_ingredients' = order_ingredients \cup {row}
             /\ Await(p, "reserveGet", req[p])
  /\ UNCHANGED <<availability, incompatibilities, orders, history, requests>>
  /\ UNCHANGED <<client, dao, walk>>

\* variant: updateIngredientAvailability without its availability check
NotEnoughUnchecked(avail, quantityUsed) == FALSE

\* variant: updateIngredientAvailability that refuses to take the last units
NotEnoughOffByOne(avail, quantityUsed) == avail <= quantityUsed

\* ingredient.availability < quantityUsed
NotEnough(avail, quantityUsed) == avail < quantityUsed

\* updateIngredientAvailability: SELECT availability, then the check
ReserveGet(p) ==
  /\ pc[p] = "reserveGet"
  /\ LET i == Head(req[p].ids)
         o == req[p].orderId
     IN IF i \in Limited
        THEN IF NotEnough(availability[i], 1)
             THEN /\ Await(p, "rollback", req[p])
                  /\ refused' = refused \cup {o}
                  /\ UNCHANGED reserved
             ELSE /\ Await(p, "reserveRun", [req[p] EXCEPT !.read = availability[i]])
                  /\ UNCHANGED <<reserved, refused>>
        ELSE /\ NextIngredient(p, req[p])
             /\ reserved' = reserved \cup {<<o, i>>}
             /\ UNCHANGED refused
  /\ UNCHANGED <<db, releases, requests>>
  /\ UNCHANGED <<client, dao, walk>>

\* updateIngredientAvailability: UPDATE ingredients SET availability = read - 1
ReserveRun(p) ==
  /\ pc[p] = "reserveRun"
  /\ LET i == Head(req[p].ids)
     IN /\ availability' = [availability EXCEPT ![i] = req[p].read - 1]
        /\ reserved' = reserved \cup {<<req[p].orderId, i>>}
        /\ NextIngredient(p, req[p])
  /\ UNCHANGED <<incompatibilities, orders, order_ingredients, releases, refused, requests>>
  /\ UNCHANGED <<client, dao, walk>>

\* variant: createOrder that throws without cancelling the order
RollbackSkipped(p) ==
  /\ pc[p] = "rollback"
  /\ Await(p, "rollbackName", req[p])
  /\ UNCHANGED <<db, history, requests>>
  /\ UNCHANGED <<client, dao, walk>>

\* createOrder after a failed reserve: UPDATE orders SET cancelled = 1
Rollback(p) ==
  /\ pc[p] = "rollback"
  /\ orders' = [orders EXCEPT ![req[p].orderId].cancelled = 1]
  /\ Await(p, "rollbackName", req[p])
  /\ UNCHANGED <<availability, incompatibilities, order_ingredients, history, requests>>
  /\ UNCHANGED <<client, dao, walk>>

\* getIngredientById, then the throw, the handler's catch and its 503
RollbackName(p) ==
  /\ pc[p] = "rollbackName"
  /\ Respond(p, 503)
  /\ UNCHANGED <<db, history, requests>>
  /\ UNCHANGED <<client, dao, walk>>


\* ------------------------------------------------------------ DELETE /api/orders/:id
\* variant: the route without the isTotp middleware
isTotpSkipped(method) == TRUE

\* isTotp: req.session.method === 'totp'
isTotp(method) == method = "totp"

\* variant: the handler without its ownership check
OwnsOrderUnchecked(order, user) == TRUE

\* order.user_id !== req.user.id is false
OwnsOrder(order, user) == order.user_id = user

\* isTotp, then getOrderDetails and the two checks on what it returned. The row
\* is read by the first query of getOrderDetails; its second query and the
\* checks read nothing that another request can change, so they are part of
\* this step
DeleteOrder(p, id, method) ==
  /\ pc[p] = "idle"
  /\ requests < MaxRequests
  /\ requests' = requests + 1
  /\ LET r == [NoReq EXCEPT !.kind = "delete", !.totp = (method = "totp"), !.orderId = id]
     IN IF ~isTotp(method) THEN Respond(p, 401)
        ELSE IF id \notin OrderIds THEN Respond(p, 404)
        ELSE IF ~OwnsOrder(orders[id], p) THEN Respond(p, 403)
        ELSE Await(p, "cancelList", [r EXCEPT !.sawCancelled = (orders[id].cancelled = 1)])
  /\ UNCHANGED <<db, history>>
  /\ UNCHANGED <<client, dao, walk>>

\* cancelOrder: getOrderIngredients
CancelList(p) ==
  /\ pc[p] = "cancelList"
  /\ Await(p, "cancelMark", [req[p] EXCEPT !.todo = OrderIngredients(req[p].orderId)])
  /\ UNCHANGED <<db, history, requests>>
  /\ UNCHANGED <<client, dao, walk>>

\* the rest of cancelOrder's loop, or its return and the 200
NextRestore(p, r) ==
  IF r.todo = {} THEN Respond(p, 200) ELSE Await(p, "restoreGet", r)

\* variant: cancelOrder whose UPDATE flips the cancelled flag
CancelMarkFlips(p) ==
  /\ pc[p] = "cancelMark"
  /\ orders' = [orders EXCEPT ![req[p].orderId].cancelled = 1 - @]
  /\ NextRestore(p, req[p])
  /\ UNCHANGED <<availability, incompatibilities, order_ingredients, history, requests>>
  /\ UNCHANGED <<client, dao, walk>>

\* variant: cancelOrder that also deletes the order's order_ingredients rows
CancelMarkForgets(p) ==
  /\ pc[p] = "cancelMark"
  /\ orders' = [orders EXCEPT ![req[p].orderId].cancelled = 1]
  /\ order_ingredients' = {row \in order_ingredients : row[1] # req[p].orderId}
  /\ NextRestore(p, req[p])
  /\ UNCHANGED <<availability, incompatibilities, history, requests>>
  /\ UNCHANGED <<client, dao, walk>>

\* cancelOrder: UPDATE orders SET cancelled = 1
CancelMark(p) ==
  /\ pc[p] = "cancelMark"
  /\ orders' = [orders EXCEPT ![req[p].orderId].cancelled = 1]
  /\ NextRestore(p, req[p])
  /\ UNCHANGED <<availability, incompatibilities, order_ingredients, history, requests>>
  /\ UNCHANGED <<client, dao, walk>>

\* the ingredient the loop of cancelOrder is at: the rows come out of the
\* primary-key index of order_ingredients, lowest ingredient id first
Current(todo) == CHOOSE i \in todo : \A j \in todo : i <= j

\* variant: restoreIngredientAvailability that gives nothing back
RestoreGetSkips(p) ==
  /\ pc[p] = "restoreGet"
  /\ NextRestore(p, [req[p] EXCEPT !.todo = @ \ {Current(req[p].todo)}])
  /\ UNCHANGED <<db, history, requests>>
  /\ UNCHANGED <<client, dao, walk>>

\* restoreIngredientAvailability: SELECT availability
RestoreGet(p) ==
  /\ pc[p] = "restoreGet"
  /\ LET i == Current(req[p].todo)
     IN IF i \in Limited
        THEN Await(p, "restoreRun", [req[p] EXCEPT !.read = availability[i]])
        ELSE NextRestore(p, [req[p] EXCEPT !.todo = @ \ {i}])
  /\ UNCHANGED <<db, history, requests>>
  /\ UNCHANGED <<client, dao, walk>>

\* restoreIngredientAvailability: UPDATE ingredients SET availability = read + 1
RestoreRun(p) ==
  /\ pc[p] = "restoreRun"
  /\ LET i == Current(req[p].todo)
     IN /\ availability' = [availability EXCEPT ![i] = req[p].read + 1]
        /\ releases' = [releases EXCEPT ![req[p].orderId] = @ + 1]
        /\ NextRestore(p, [req[p] EXCEPT !.todo = @ \ {i}])
  /\ UNCHANGED <<incompatibilities, orders, order_ingredients, reserved, refused, requests>>
  /\ UNCHANGED <<client, dao, walk>>

\* ------------------------------------------------------------ specification
Idle ==
  /\ pc = [p \in Procs |-> "idle"]
  /\ req = [p \in Procs |-> NoReq]
  /\ resp = [p \in Procs |-> 0]
  /\ reserved = {}
  /\ refused = {}
  /\ requests = 0

\* the database initDB leaves on first start
InitDB ==
  /\ availability = SeedAvailability
  /\ incompatibilities = SeedIncompatibilities
  /\ orders = SeedOrders
  /\ order_ingredients = SeedOrderIngredients
  /\ releases = [o \in 1..Len(SeedOrders) |-> 0]

\* the database restaurant.sql creates
InitSql ==
  /\ availability = SqlAvailability
  /\ incompatibilities = SqlIncompatibilities
  /\ orders = <<>>
  /\ order_ingredients = {}
  /\ releases = <<>>

\* no direct call of the ingredient DAO
NoCall == [fn |-> "none", at |-> "", id |-> 0, qty |-> 0, read |-> 0, before |-> <<>>]

DaoIdle ==
  /\ table = [i \in {} |-> <<>>]
  /\ call = NoCall
  /\ log = <<>>

\* no API.getIngredients() call in flight
NoFetch == [kind |-> "none", selected |-> <<>>]

\* the configurator as it mounts: useState('small'), useState([]), useState('')
NoFrames ==
  /\ requires = [i \in {} |-> {}]
  /\ asked = [ingredientId |-> 0, currentIngredients |-> <<>>]
  /\ frames = <<>>
  /\ currentIngredients = <<>>
  /\ visited = {}

ClientIdle ==
  /\ ingredients = availability
  /\ selectedIngredients = <<>>
  /\ selectedSize = "small"
  /\ constraintError = ""
  /\ fetch = NoFetch
  /\ toggled = 0

Init == Idle /\ (InitDB \/ InitSql) /\ ClientIdle /\ DaoIdle /\ NoFrames

Methods == {"password", "totp"}

Next ==
  \E p \in Procs :
    \/ \E body \in Bodies : PostOrders(p, body)
    \/ CreateOrder(p)
    \/ LinkIngredient(p)
    \/ ReserveGet(p)
    \/ ReserveRun(p)
    \/ Rollback(p)
    \/ RollbackName(p)
    \/ \E id \in 1..(Len(orders) + 1), method \in Methods : DeleteOrder(p, id, method)
    \/ CancelList(p)
    \/ CancelMark(p)
    \/ RestoreGet(p)
    \/ RestoreRun(p)

Spec == Init /\ [][Next]_vars


\* ------------------------------------------------------------ properties
AllIdle == \A p \in Procs : pc[p] = "idle"

\* the seed the behaviour started from, read off the rows no request changes
SeededByInitDB == incompatibilities = SeedIncompatibilities

InitialAvailability == IF SeededByInitDB THEN SeedAvailability ELSE SqlAvailability

\* the orders created by POST /api/orders
NewOrderIds == {o \in OrderIds : o > (IF SeededByInitDB THEN Len(SeedOrders) ELSE 0)}

Confirmed(o) == orders[o].cancelled = 0

\* createOrder for order o has not returned yet
Creating(o) == \E p \in Procs : req[p].kind = "post" /\ req[p].orderId = o

\* client p is inside OrdersDAO.cancelOrder
Cancelling(p) == pc[p] \in {"cancelList", "cancelMark", "restoreGet", "restoreRun"}

\* the order_ingredients rows of order o, unknown ingredient ids included
Linked(o) == {row[2] : row \in {x \in order_ingredients : x[1] = o}}

\* C1: the availability of every ingredient with limited stock is >= 0 in every
\* reachable state, whatever the interleaving of the reserves of createOrder
\* and the releases of cancelOrder.
C1_StockNeverNegative == \A i \in Limited : availability[i] >= 0

\* C1 witness: a reserve and a release of ham raced (both read 1), the order
\* holds ham, one release ran and the stock is at 0.
C1_Witness ==
  /\ AllIdle
  /\ availability[4] = 0
  /\ \E o \in OrderIds : releases[o] = 1 /\ 4 \in Linked(o)
  /\ \E o \in NewOrderIds : Confirmed(o) /\ <<o, 4>> \in reserved

\* C2: with no release in between, the Confirmed orders that came out of
\* POST /api/orders and list a limited ingredient are never more than the
\* units it had (ham, stock 1: exactly one of two concurrent orders is
\* Confirmed), and no two handlers are between the `availability < qty` check
\* and the UPDATE of the same ingredient at once.
C2_ReservesSerialize ==
  /\ (AllIdle /\ \A o \in OrderIds : releases[o] = 0) =>
        \A i \in Limited :
          Cardinality({o \in NewOrderIds : Confirmed(o) /\ i \in Linked(o)}) <= InitialAvailability[i]
  /\ \A p, q \in Procs :
        (p # q /\ pc[p] = "reserveRun" /\ pc[q] = "reserveRun") => Head(req[p].ids) # Head(req[q].ids)

\* C3: a DELETE of an order that is already cancelled never gets into
\* cancelOrder, and no order has more releases than it has limited ingredients.
C3_SecondCancelRejected ==
  /\ \A p \in Procs : Cancelling(p) => ~req[p].sawCancelled
  /\ \A o \in OrderIds : releases[o] <= Cardinality(Linked(o) \cap Limited)

\* C4: every Confirmed order whose createOrder has returned holds, for each of
\* its ingredients, every ingredient that one requires.
C4_DependenciesComplete ==
  \A o \in OrderIds :
    (Confirmed(o) /\ ~Creating(o)) => \A i \in Linked(o) \cap IngIds : Requires(i) \subseteq Linked(o)

\* C5: no Confirmed order holds two ingredients a, b with a row <<a, b>> in
\* ingredient_incompatibilities, stored one way or both ways.
C5_NoIncompatiblePair ==
  \A o \in OrderIds :
    Confirmed(o) => \A a, b \in Linked(o) : <<a, b>> \notin incompatibilities


\* C6: once createOrder has returned, an order for which a reserve was refused
\* is Cancelled, and a Confirmed order lists only ingredients for which
\* updateIngredientAvailability returned true.
C6_RefusedOrderCancelled ==
  \A o \in NewOrderIds :
    ~Creating(o) =>
      /\ o \in refused => orders[o].cancelled = 1
      /\ Confirmed(o) => \A i \in Linked(o) : <<o, i>> \in reserved

\* C6 witness: a reserve was refused, createOrder has returned with the 503
\* and the order is Cancelled.
C6_Witness ==
  \E o \in NewOrderIds : o \in refused /\ ~Creating(o) /\ orders[o].cancelled = 1
                         /\ \E p \in Procs : resp[p] = 503 /\ orders[o].user_id = p

\* C7: once createOrder has returned after a refused reserve, every unit the
\* call had taken for the earlier ingredients of the order has been released.
C7_FailedOrderReleasesUnits ==
  \A o \in refused :
    ~Creating(o) => releases[o] >= Cardinality({i \in Limited : <<o, i>> \in reserved})

\* the selection breaks one of the four rules of the handler's re-validation
C8_Fails(selected, size, avail, inc) ==
  \/ Cardinality(selected) > MaxIngredients(size)
  \/ \E i \in selected \cap Limited : avail[i] <= 0
  \/ \E d \in Dependencies : d[1] \in selected /\ d[2] \notin selected
  \/ \E x \in inc : x[1] \in selected /\ x[2] \in selected

C9_CancelNeedsTotp ==
  [][/\ \A p \in Procs : Cancelling(p)' => req'[p].totp
     /\ \A o \in OrderIds :
          (Confirmed(o) /\ orders'[o].cancelled = 1) =>
             \E p \in Procs : req[p].orderId = o /\ (pc[p] = "rollback" \/ (pc[p] = "cancelMark" /\ req[p].totp))
     /\ \A o \in OrderIds :
          releases'[o] > releases[o] =>
             \E p \in Procs : pc[p] = "restoreRun" /\ req[p].orderId = o /\ req[p].totp
     /\ (\E p \in Procs : resp'[p] = 401 /\ resp[p] # 401) => UNCHANGED db]_vars

\* C9 witness: a DELETE without the second factor was answered 401 and the
\* database is as seeded.
C9_Witness ==
  /\ requests = 1
  /\ \E p \in Procs : resp[p] = 401 /\ pc[p] = "idle"
  /\ \A o \in OrderIds : Confirmed(o)
  /\ availability = InitialAvailability

\* C10: only the owner of an order gets into cancelOrder for it: every step of
\* a DELETE that cancels a Confirmed order or gives a unit back belongs to a
\* request of the user the order belongs to, and the step that answers 403
\* leaves the database as it was.
C10_CancelNeedsOwner ==
  [][/\ \A p \in Procs : Cancelling(p)' => orders'[req'[p].orderId].user_id = p
     /\ \A o \in OrderIds :
          (Confirmed(o) /\ orders'[o].cancelled = 1) =>
             \E p \in Procs : req[p].orderId = o /\ orders[o].user_id = p /\ pc[p] \in {"rollback", "cancelMark"}
     /\ \A o \in OrderIds :
          releases'[o] > releases[o] =>
             \E p \in Procs : pc[p] = "restoreRun" /\ req[p].orderId = o /\ orders[o].user_id = p
     /\ (\E p \in Procs : resp'[p] = 403 /\ resp[p] # 403) => UNCHANGED db]_vars

\* C10 witness: a DELETE with the second factor for another user's order was
\* answered 403 and the database is as seeded.
C10_Witness ==
  /\ requests = 1
  /\ \E p \in Procs : resp[p] = 403 /\ pc[p] = "idle"
  /\ \A o \in OrderIds : Confirmed(o)
  /\ availability = InitialAvailability

\* C11: the status of an order only moves forward: no step takes the cancelled
\* flag of an order from 1 back to 0, so a Cancelled order stays Cancelled.
C11_CancelledStaysCancelled ==
  [][\A o \in OrderIds : orders[o].cancelled = 1 => orders'[o].cancelled = 1]_vars

\* C11 witness: a Cancelled order went through cancelOrder a second time (two
\* releases of its one limited ingredient) and is still Cancelled.
C11_Witness ==
  \E o \in OrderIds : orders[o].cancelled = 1 /\ releases[o] = 2 /\ AllIdle

\* ------------------------------------------------------------ one request at a time
\* the server when every request is answered before the next one arrives
SeqNext ==
  \E p \in Procs :
    \/ AllIdle /\ \E body \in Bodies : PostOrders(p, body)
    \/ CreateOrder(p)
    \/ LinkIngredient(p)
    \/ ReserveGet(p)
    \/ ReserveRun(p)
    \/ Rollback(p)
    \/ RollbackName(p)
    \/ AllIdle /\ \E id \in 1..(Len(orders) + 1), method \in Methods : DeleteOrder(p, id, method)
    \/ CancelList(p)
    \/ CancelMark(p)
    \/ RestoreGet(p)
    \/ RestoreRun(p)

SeqSpec == Init /\ [][SeqNext]_vars

\* C12: a cancelOrder of a Confirmed order that runs with no other request in
\* flight changes stock only by adding exactly 1 to a limited ingredient of
\* the order, and when it returns the order is Cancelled and one such UPDATE
\* has run for each limited ingredient of the order (ingredients without a
\* stock figure and ingredients of other orders are left as they were).
C12_CancelRestoresEachUnit ==
  [][\A p \in Procs :
       (Cancelling(p) /\ ~req[p].sawCancelled) =>
         LET o == req[p].orderId
         IN /\ pc[p] = "restoreRun" =>
                 \E i \in Linked(o) \cap Limited :
                    availability' = [availability EXCEPT ![i] = availability[i] + 1]
            /\ pc[p] # "restoreRun" => availability' = availability
            /\ pc'[p] = "idle" =>
                 /\ resp'[p] = 200
                 /\ orders'[o].cancelled = 1
                 /\ releases'[o] = Cardinality(Linked(o) \cap Limited)]_vars

\* C12 witness: the one request so far was the DELETE of the sample order that
\* holds ham; it was answered 200, the order is Cancelled, ham went from 1 to
\* 2 and every other stock is as seeded.
C12_Witness ==
  /\ requests = 1
  /\ AllIdle
  /\ SeededByInitDB
  /\ resp[2] = 200
  /\ orders[3].cancelled = 1
  /\ availability = [SeedAvailability EXCEPT ![4] = 2]

\* ------------------------------------------------------------ the ingredient DAO called on its own
\* One caller runs updateIngredientAvailability and restoreIngredientAvailability
\* one after the other on rows whose availability is NULL (written <<>>) or a
\* number n (written <<n>>).
Null == <<>>

Some(n) == <<n>>

\* rows the calls are made on
DaoIds == {4, 5}

Stocks == {Null} \cup {Some(n) : n \in 0..MaxStock}

Quantities == 1..MaxQty

server == <<availability, incompatibilities, orders, order_ingredients, pc, req, resp, releases,
            reserved, refused, requests>>

\* the function returns: the promise resolves with `result`
Return(result) ==
  /\ log' = Append(log, [fn |-> call.fn, id |-> call.id, qty |-> call.qty, before |-> call.before,
                          after |-> table'[call.id], result |-> result])
  /\ call' = NoCall

DaoCall(fn, i, q) ==
  /\ call.fn = "none"
  /\ Len(log) < MaxCalls
  /\ call' = [fn |-> fn, at |-> "get", id |-> i, qty |-> q, read |-> 0, before |-> table[i]]
  /\ UNCHANGED <<table, log>>
  /\ UNCHANGED <<server, client, walk>>

\* updateIngredientAvailability: SELECT availability, the null test and the check
DaoUpdateGet ==
  /\ call.fn = "update" /\ call.at = "get"
  /\ LET row == table[call.id]
     IN IF row # Null
        THEN IF NotEnough(row[1], call.qty)
             THEN table' = table /\ Return(FALSE)
             ELSE /\ call' = [call EXCEPT !.at = "run", !.read = row[1]]
                  /\ UNCHANGED <<table, log>>
        ELSE table' = table /\ Return(TRUE)
  /\ UNCHANGED <<server, client, walk>>

\* updateIngredientAvailability: UPDATE ingredients SET availability = read - quantityUsed
DaoUpdateRun ==
  /\ call.fn = "update" /\ call.at = "run"
  /\ table' = [table EXCEPT ![call.id] = Some(call.read - call.qty)]
  /\ Return(TRUE)
  /\ UNCHANGED <<server, client, walk>>

\* restoreIngredientAvailability: SELECT availability and the null test
DaoRestoreGet ==
  /\ call.fn = "restore" /\ call.at = "get"
  /\ LET row == table[call.id]
     IN IF row # Null
        THEN /\ call' = [call EXCEPT !.at = "run", !.read = row[1]]
             /\ UNCHANGED <<table, log>>
        ELSE table' = table /\ Return(TRUE)
  /\ UNCHANGED <<server, client, walk>>

\* variant: restoreIngredientAvailability that writes back what it read
DaoRestoreRunNothing ==
  /\ call.fn = "restore" /\ call.at = "run"
  /\ table' = [table EXCEPT ![call.id] = Some(call.read)]
  /\ Return(TRUE)
  /\ UNCHANGED <<server, client, walk>>

\* restoreIngredientAvailability: UPDATE ingredients SET availability = read + quantityToRestore
DaoRestoreRun ==
  /\ call.fn = "restore" /\ call.at = "run"
  /\ table' = [table EXCEPT ![call.id] = Some(call.read + call.qty)]
  /\ Return(TRUE)
  /\ UNCHANGED <<server, client, walk>>

DaoInit ==
  /\ Idle /\ InitDB /\ ClientIdle /\ NoFrames
  /\ table \in [DaoIds -> Stocks]
  /\ call = NoCall
  /\ log = <<>>

DaoNext ==
  \/ \E i \in DaoIds, q \in Quantities : DaoCall("update", i, q)
  \/ \E i \in DaoIds, q \in Quantities : DaoCall("restore", i, q)
  \/ DaoUpdateGet
  \/ DaoUpdateRun
  \/ DaoRestoreGet
  \/ DaoRestoreRun

DaoSpec == DaoInit /\ [][DaoNext]_vars

\* C13: updateIngredientAvailability(id, qty) on a row with a stock figure
\* returns true exactly when the figure is >= qty, then leaves figure - qty, and
\* otherwise returns false and leaves the figure as it was; on a row whose
\* availability is NULL it returns true and the column stays NULL.
C13_ReserveSemantics ==
  \A k \in 1..Len(log) :
    LET c == log[k]
    IN c.fn = "update" =>
         IF c.before = Null
         THEN c.result /\ c.after = Null
         ELSE /\ c.result <=> c.before[1] >= c.qty
              /\ c.after = IF c.result THEN Some(c.before[1] - c.qty) ELSE c.before

\* C13 witness: a call for exactly the units in stock succeeded and left 0, and
\* the next call on the same row was refused and left 0.
C13_Witness ==
  /\ Len(log) = 2
  /\ log[1].fn = "update" /\ log[1].before = Some(log[1].qty) /\ log[1].result /\ log[1].after = Some(0)
  /\ log[2].fn = "update" /\ log[2].id = log[1].id /\ ~log[2].result /\ log[2].after = Some(0)

\* C14: when updateIngredientAvailability(id, 1) returned true and
\* restoreIngredientAvailability(id, 1) is the next call, the row has the
\* availability it started with, a number or NULL.
C14_ReserveThenRelease ==
  \A k \in 1..(Len(log) - 1) :
    (/\ log[k].fn = "update" /\ log[k].qty = 1 /\ log[k].result
     /\ log[k + 1].fn = "restore" /\ log[k + 1].qty = 1 /\ log[k + 1].id = log[k].id)
    => log[k + 1].after = log[k].before

\* C14 witness: a reserve of 1 took the row from 1 to 0 and the release of 1
\* that followed took it back to 1.
C14_Witness ==
  /\ Len(log) = 2
  /\ log[1].fn = "update" /\ log[1].qty = 1 /\ log[1].result
  /\ log[1].before = Some(1) /\ log[1].after = Some(0)
  /\ log[2].fn = "restore" /\ log[2].qty = 1 /\ log[2].id = log[1].id
  /\ log[2].after = Some(1)

\* ------------------------------------------------------------ OrderConfigurator (client)
\* The page keeps the catalog of its last API.getIngredients() and the array of
\* selected ids. Its event handlers run to completion; refreshIngredients and
\* handleOrderSubmit await API.getIngredients() and then work on the
\* selectedIngredients of the render they were created in. Other customers'
\* orders and cancellations change the stock on the server in the meantime.

\* ingredients the customer clicks on in the behaviours explored (olives, 5, enter
\* the selection as a requirement of tomatoes)
ClientIds == {1, 2, 7, 9}

\* sizes the customer switches between in the behaviours explored
ClientSizes == {"small", "medium"}

RECURSIVE addRequiredIngredients(_, _)
RECURSIVE AddEachRequired(_, _)
\* variant: addRequiredIngredients that adds the ingredient and none of its requirements
addOnlyItself(ingredientId, st) ==
  [current |-> Append(st.current, ingredientId), visited |-> st.visited \cup {ingredientId}]

\* addRequiredIngredients(ingredientId, currentIngredients, visited); st holds the
\* array and the visited set, both of which the recursion shares
addRequiredIngredients(ingredientId, st) ==
  IF ingredientId \in st.visited THEN st
  ELSE AddEachRequired(Requires(ingredientId),
                       [current |-> IF ingredientId \in Range(st.current) THEN st.current
                                    ELSE Append(st.current, ingredientId),
                        visited |-> st.visited \cup {ingredientId}])

\* for (const requiredName of ingredient.requires) ...
AddEachRequired(required, st) ==
  IF required = {} THEN st
  ELSE LET r == CHOOSE x \in required : \A y \in required : x <= y
       IN AddEachRequired(required \ {r}, addRequiredIngredients(r, st))

\* tempIngredients = addRequiredIngredients(ingredientId, [...selectedIngredients])
WithRequired(ingredientId, selected) ==
  addRequiredIngredients(ingredientId, [current |-> selected, visited |-> {}]).current

\* variant: canAddIngredient without the size check
canAddAnySize(ingredientId) ==
  /\ ~SoldOut(ingredientId, ingredients)
  /\ ingredientId \notin Range(selectedIngredients)
  /\ \A newIngId \in Range(WithRequired(ingredientId, selectedIngredients)) \ Range(selectedIngredients) :
       ~SoldOut(newIngId, ingredients)

\* canAddIngredient(ingredientId); its incompatibility check is commented out
canAddIngredient(ingredientId) ==
  /\ ~SoldOut(ingredientId, ingredients)
  /\ ingredientId \notin Range(selectedIngredients)
  /\ LET tempIngredients == WithRequired(ingredientId, selectedIngredients)
     IN /\ ~(Len(tempIngredients) > MaxIngredients(selectedSize))
        /\ \A newIngId \in Range(tempIngredients) \ Range(selectedIngredients) :
             ~SoldOut(newIngId, ingredients)

\* variant: canRemoveIngredient that never refuses
canRemoveAlways(ingredientId) == TRUE

\* canRemoveIngredient(ingredientId)
canRemoveIngredient(ingredientId) ==
  ~\E selectedId \in Range(selectedIngredients) :
      selectedId # ingredientId /\ ingredientId \in Requires(selectedId)

\* the message handleIngredientToggle shows when canAddIngredient said no
AddError(ingredientId) ==
  IF SoldOut(ingredientId, ingredients) THEN "out of stock"
  ELSE IF Len(selectedIngredients) >= MaxIngredients(selectedSize) THEN "size"
  ELSE IF IncompatibleWith(ingredientId, incompatibilities) \cap Range(selectedIngredients) # {}
       THEN "incompatible"
  ELSE ""

\* prev.filter(id => id !== ingredientId)
Without(selected, ingredientId) == SelectSeq(selected, LAMBDA id : id # ingredientId)

\* handleIngredientToggle(ingredientId)
handleIngredientToggle(ingredientId) ==
  /\ toggled' = ingredientId
  /\ IF ingredientId \in Range(selectedIngredients)
     THEN IF ~canRemoveIngredient(ingredientId)
          THEN constraintError' = "required" /\ UNCHANGED selectedIngredients
          ELSE /\ constraintError' = ""
               /\ selectedIngredients' = Without(selectedIngredients, ingredientId)
     ELSE IF ~canAddIngredient(ingredientId)
          THEN constraintError' = AddError(ingredientId) /\ UNCHANGED selectedIngredients
          ELSE /\ constraintError' = ""
               /\ selectedIngredients' = WithRequired(ingredientId, selectedIngredients)
  /\ UNCHANGED <<ingredients, selectedSize, fetch, server, dao, walk>>

\* `Cannot change to ${newSize} size: too many ingredients selected`
SizeChangeError(newSize) ==
  CASE newSize = "small" -> "cannot change to small"
    [] newSize = "medium" -> "cannot change to medium"
    [] newSize = "large" -> "cannot change to large"

\* variant: handleSizeChange that compares with the cap of the current size
handleSizeChangeCurrentCap(newSize) ==
  /\ IF Len(selectedIngredients) > MaxIngredients(selectedSize)
     THEN constraintError' = SizeChangeError(newSize) /\ UNCHANGED selectedSize
     ELSE constraintError' = "" /\ selectedSize' = newSize
  /\ toggled' = 0
  /\ UNCHANGED <<ingredients, selectedIngredients, fetch, server, dao, walk>>

\* handleSizeChange(newSize)
handleSizeChange(newSize) ==
  /\ IF Len(selectedIngredients) > MaxIngredients(newSize)
     THEN constraintError' = SizeChangeError(newSize) /\ UNCHANGED selectedSize
     ELSE constraintError' = "" /\ selectedSize' = newSize
  /\ toggled' = 0
  /\ UNCHANGED <<ingredients, selectedIngredients, fetch, server, dao, walk>>

\* refreshIngredients or handleOrderSubmit up to its await
StartFetch(kind) ==
  /\ fetch.kind = "none"
  /\ fetch' = [kind |-> kind, selected |-> selectedIngredients]
  /\ toggled' = 0
  /\ UNCHANGED <<ingredients, selectedIngredients, selectedSize, constraintError, server, dao, walk>>

\* the selected ids that are not out of stock in the catalog just fetched
StillAvailable(selected, updated) == SelectSeq(selected, LAMBDA id : ~SoldOut(id, updated))

\* the rest of refreshIngredients and of handleOrderSubmit: setIngredients, then
\* setSelectedIngredients when an id of the captured selection is out of stock
FetchDone(kind) ==
  /\ fetch.kind = kind
  /\ ingredients' = availability
  /\ LET stillAvailableIngredients == StillAvailable(fetch.selected, availability)
     IN IF Len(stillAvailableIngredients) # Len(fetch.selected)
        THEN selectedIngredients' = stillAvailableIngredients
        ELSE UNCHANGED selectedIngredients
  /\ fetch' = NoFetch
  /\ toggled' = 0
  /\ UNCHANGED <<selectedSize, constraintError, server, dao, walk>>

\* refreshIngredients runs on every effect run, interval tick and visibility
\* change; handleOrderSubmit on the submit button
FetchKinds == {"refresh", "submit"}

\* another customer's order takes a unit of ingredient i
OtherOrder(i) ==
  /\ ~NotEnough(availability[i], 1)
  /\ availability' = [availability EXCEPT ![i] = @ - 1]
  /\ toggled' = 0
  /\ UNCHANGED <<incompatibilities, orders, order_ingredients, pc, req, resp, history, requests,
                 ingredients, selectedIngredients, selectedSize, constraintError, fetch, dao, walk>>

\* another customer's cancellation gives a unit of ingredient i back
OtherCancel(i) ==
  /\ availability[i] < SeedAvailability[i]
  /\ availability' = [availability EXCEPT ![i] = @ + 1]
  /\ toggled' = 0
  /\ UNCHANGED <<incompatibilities, orders, order_ingredients, pc, req, resp, history, requests,
                 ingredients, selectedIngredients, selectedSize, constraintError, fetch, dao, walk>>

ClientInit == Idle /\ InitDB /\ ClientIdle /\ DaoIdle /\ NoFrames

ClientNext ==
  \/ \E id \in ClientIds : handleIngredientToggle(id)
  \/ \E newSize \in ClientSizes : handleSizeChange(newSize)
  \/ \E kind \in FetchKinds : StartFetch(kind)
  \/ \E kind \in FetchKinds : FetchDone(kind)
  \/ \E i \in ClientIds \cap Limited : OtherOrder(i)
  \/ \E i \in ClientIds \cap Limited : OtherCancel(i)

ClientSpec == ClientInit /\ [][ClientNext]_vars

\* ------------------------------------------------------------ properties of the page

RECURSIVE RequiredFrom(_)
\* the ingredients reachable from the set S over `requires`
RequiredFrom(S) ==
  LET more == S \cup UNION {Requires(i) : i \in S}
  IN IF more = S THEN S ELSE RequiredFrom(more)

\* the dependency closure of one ingredient: itself and all it transitively requires
Closure(id) == RequiredFrom({id})

NoDuplicates(selected) == Cardinality(Range(selected)) = Len(selected)

\* the step is a call of handleIngredientToggle(id) on an unselected ingredient
AddOf(id) == toggled' = id /\ id \notin Range(selectedIngredients)

\* the step is a call of handleIngredientToggle(id) on a selected ingredient
RemoveOf(id) == toggled' = id /\ id \in Range(selectedIngredients)

\* C15: an add that goes through appends to the selection exactly the candidate's
\* dependency closure minus what was already selected, and the selection holds
\* no ingredient twice.
C15_AddAppendsClosure ==
  [][\A id \in ClientIds :
       (AddOf(id) /\ selectedIngredients' # selectedIngredients) =>
         /\ Len(selectedIngredients') >= Len(selectedIngredients)
         /\ SubSeq(selectedIngredients', 1, Len(selectedIngredients)) = selectedIngredients
         /\ Range(selectedIngredients') = Range(selectedIngredients) \cup Closure(id)
         /\ NoDuplicates(selectedIngredients')]_vars

\* parmesan added to tomatoes and olives: parmesan and mozzarella are appended,
\* tomatoes and olives are not added again
C15_Witness == toggled = 9 /\ selectedIngredients = <<2, 5, 9, 1>>

\* C16: the selection is dependency-closed: every selected ingredient has all
\* it requires selected too, whatever adds, removes, size changes, refreshes
\* and pre-submit checks have run.
C16_SelectionDependencyClosed ==
  \A i \in Range(selectedIngredients) : Requires(i) \subseteq Range(selectedIngredients)

C18_NoIncompatibleSelected ==
  \A a, b \in Range(selectedIngredients) : <<a, b>> \notin incompatibilities

\* C19: removing a selected ingredient is refused exactly when another selected
\* ingredient requires it; when it goes through, that ingredient alone leaves
\* the selection.
C19_RemoveRule ==
  [][\A id \in ClientIds :
       RemoveOf(id) =>
         IF \E other \in Range(selectedIngredients) \ {id} : id \in Requires(other)
         THEN selectedIngredients' = selectedIngredients /\ constraintError' = "required"
         ELSE /\ Range(selectedIngredients') = Range(selectedIngredients) \ {id}
              /\ Len(selectedIngredients') = Len(selectedIngredients) - 1]_vars

\* tomatoes removed from tomatoes and olives: olives, which tomatoes required, stay
C19_Witness == toggled = 2 /\ selectedIngredients = <<5>> /\ constraintError = ""

\* C20: an add is refused whenever an ingredient of the candidate's closure is
\* out of stock in the catalog the page holds.
C20_SoldOutClosureDenies ==
  [][\A id \in ClientIds :
       (AddOf(id) /\ \E n \in Closure(id) : SoldOut(n, ingredients)) =>
         selectedIngredients' = selectedIngredients]_vars

\* the add of id would break the stock rule, the size rule
StockFailure(id) == \E n \in Closure(id) : SoldOut(n, ingredients)

SizeFailure(id) ==
  Cardinality(Range(selectedIngredients) \cup Closure(id)) > MaxIngredients(selectedSize)

\* C21: a refused add shows the stock message if the add breaks the stock rule,
\* else the size message if it breaks the size rule, else the incompatibility
\* message; it never shows anything else.
C21_DenialReasonPrecedence ==
  [][\A id \in ClientIds :
       (AddOf(id) /\ selectedIngredients' = selectedIngredients) =>
         constraintError' = IF StockFailure(id) THEN "out of stock"
                            ELSE IF SizeFailure(id) THEN "size"
                            ELSE "incompatible"]_vars

\* ------------------------------------------------------------ addRequiredIngredients on its own
\* The function run on a catalog whose `requires` lists are arbitrary, cycles
\* included: one frame per call that has not returned, one step per statement
\* group of the innermost call.

\* ingredients of the catalog in the behaviours explored
WalkIds == {1, 2, 5}

\* arrays the outermost call is handed
WalkSelections == {<<>>} \cup {<<i>> : i \in WalkIds}

\* a call that has just been made
Called(ingredientId) == [ingredientId |-> ingredientId, at |-> "enter", todo |-> {}]

Top == frames[Len(frames)]

Pop == SubSeq(frames, 1, Len(frames) - 1)

\* variant: a call on an ingredient already visited throws, and the exception
\* unwinds every call
WalkEnterThrows ==
  /\ frames # <<>>
  /\ Top.at = "enter"
  /\ IF Top.ingredientId \in visited
     THEN frames' = <<>> /\ currentIngredients' = <<>> /\ UNCHANGED visited
     ELSE /\ visited' = visited \cup {Top.ingredientId}
          /\ currentIngredients' = IF Top.ingredientId \in Range(currentIngredients)
                                    THEN currentIngredients
                                    ELSE Append(currentIngredients, Top.ingredientId)
          /\ frames' = Append(Pop, [Top EXCEPT !.at = "loop", !.todo = requires[Top.ingredientId]])
  /\ UNCHANGED <<requires, asked, server, client, dao>>

\* a call up to its loop: return at once if visited, else visited.add and push
WalkEnter ==
  /\ frames # <<>>
  /\ Top.at = "enter"
  /\ IF Top.ingredientId \in visited
     THEN frames' = Pop /\ UNCHANGED <<currentIngredients, visited>>
     ELSE /\ visited' = visited \cup {Top.ingredientId}
          /\ currentIngredients' = IF Top.ingredientId \in Range(currentIngredients)
                                    THEN currentIngredients
                                    ELSE Append(currentIngredients, Top.ingredientId)
          /\ frames' = Append(Pop, [Top EXCEPT !.at = "loop", !.todo = requires[Top.ingredientId]])
  /\ UNCHANGED <<requires, asked, server, client, dao>>

\* one iteration of for (const requiredName of ingredient.requires): the
\* recursive call; the array order of requires is whatever the server sent
WalkRecurse ==
  /\ frames # <<>>
  /\ Top.at = "loop"
  /\ \E requiredId \in Top.todo :
       frames' = Append(Append(Pop, [Top EXCEPT !.todo = @ \ {requiredId}]), Called(requiredId))
  /\ UNCHANGED <<requires, asked, currentIngredients, visited, server, client, dao>>

\* return currentIngredients after the loop
WalkReturn ==
  /\ frames # <<>>
  /\ Top.at = "loop"
  /\ Top.todo = {}
  /\ frames' = Pop
  /\ UNCHANGED <<requires, asked, currentIngredients, visited, server, client, dao>>

WalkInit ==
  /\ Idle /\ InitDB /\ ClientIdle /\ DaoIdle
  /\ requires \in [WalkIds -> SUBSET WalkIds]
  /\ asked \in [ingredientId : WalkIds, currentIngredients : WalkSelections]
  /\ frames = <<Called(asked.ingredientId)>>
  /\ currentIngredients = asked.currentIngredients
  /\ visited = {}

WalkNext == WalkEnter \/ WalkRecurse \/ WalkReturn

\* a call runs to completion: nothing preempts synchronous code
WalkSpec == WalkInit /\ [][WalkNext]_vars /\ WF_vars(WalkNext)

RECURSIVE ReachableFrom(_)
\* the ingredients reachable from the set S over the catalog's requires
ReachableFrom(S) ==
  LET more == S \cup UNION {requires[i] : i \in S}
  IN IF more = S THEN S ELSE ReachableFrom(more)

\* some ingredient requires itself, directly or through others
HasCycle == \E i \in WalkIds : \E j \in requires[i] : i \in ReachableFrom({j})

\* C22: on every catalog, with or without cycles in requires, the outermost
\* call of addRequiredIngredients returns, and what it returns holds what it
\* was handed plus every ingredient reachable from the candidate.
C22_ClosureTerminates ==
  <>( /\ frames = <<>>
      /\ Range(currentIngredients) =
           Range(asked.currentIngredients) \cup ReachableFrom({asked.ingredientId}) )

\* mozzarella and tomatoes require each other; the call for mozzarella returned both
C22_Witness ==
  /\ frames = <<>>
  /\ HasCycle
  /\ requires[1] = {2} /\ requires[2] = {1}
  /\ asked.ingredientId = 1
  /\ currentIngredients = <<1, 2>>

\* the step is a call of handleSizeChange: not a toggle, not a fetch, not another customer
SizeChangeStep == toggled' = 0 /\ fetch' = fetch /\ availability' = availability

\* C23: a size change to newSize is refused exactly when the selection has more
\* ingredients than newSize allows; refused, it leaves size and selection as
\* they were; accepted, it changes the size only.
C23_SizeChangeRule ==
  [][SizeChangeStep =>
       /\ selectedIngredients' = selectedIngredients
       /\ \A newSize \in ClientSizes :
            /\ constraintError' = SizeChangeError(newSize) =>
                 /\ Len(selectedIngredients) > MaxIngredients(newSize)
                 /\ selectedSize' = selectedSize
            /\ (constraintError' = "" /\ selectedSize' = newSize) =>
                 Len(selectedIngredients) <= MaxIngredients(newSize)
       /\ constraintError' \in {""} \cup {SizeChangeError(newSize) : newSize \in ClientSizes}]_vars

\* medium with four ingredients selected: the change to small was refused
C23_Witness ==
  /\ constraintError = SizeChangeError("small")
  /\ selectedSize = "medium"
  /\ Len(selectedIngredients) = 4

\* ------------------------------------------------------------ properties of the orders

\* C24: once createOrder has returned or thrown, the total of an order created
\* by POST /api/orders is the price of its size plus the prices of the
\* ingredients recorded on it.
C24_TotalMatchesIngredients ==
  \A o \in NewOrderIds :
     ~Creating(o) => orders[o].total = Total(OrderIngredients(o), orders[o].size)

\* C25: a POST /api/orders whose ingredients array holds an id that is no row
\* of ingredients never gets as far as createOrder.
C25_UnknownIdRejected ==
  \A p \in Procs : req[p].kind = "post" => Range(req[p].ids) \subseteq IngIds

\* C26: when createOrder throws because a reserve was refused, the answer is
\* not the 503 the handler gives for database errors.
C26_RefusalIsNot503 ==
  [][\A p \in Procs : (pc[p] = "rollbackName" /\ pc'[p] = "idle") => resp'[p] # 503]_vars

\* Confirmed orders that list ingredient i
Listing(i) == {o \in OrderIds : Confirmed(o) /\ i \in OrderIngredients(o)}

\* sample orders that list ingredient i
InitiallyListing(i) ==
  IF SeededByInitDB THEN {o \in 1..Len(SeedOrders) : <<o, i>> \in SeedOrderIngredients} ELSE {}

\* C27: with no request in flight, the stock of a limited ingredient plus the
\* number of Confirmed orders listing it is what it was at the start.
C27_UnitsConserved ==
  AllIdle =>
    \A i \in Limited :
       availability[i] + Cardinality(Listing(i)) =
         InitialAvailability[i] + Cardinality(InitiallyListing(i))

\* C28: an order cancelled by cancelOrder has had every limited ingredient of
\* it released.
C28_ReleasedBeforeCancelled ==
  \A o \in OrderIds :
     (orders[o].cancelled = 1 /\ o \notin refused) =>
       releases[o] >= Cardinality(OrderIngredients(o) \cap Limited)

\* the step is one of client p's handler
StepOf(p) == pc'[p] # pc[p] \/ req'[p] # req[p]

\* C30: a step of cancelOrder leaves order_ingredients as it is, changes no
\* order but the cancelled one and of that the cancelled column only, and
\* changes the stock only of a limited ingredient of that order.
C30_CancelFrame ==
  [][\A p \in Procs :
       (Cancelling(p) /\ StepOf(p)) =>
         LET o == req[p].orderId
         IN /\ order_ingredients' = order_ingredients
            /\ orders' = [orders EXCEPT ![o].cancelled = orders'[o].cancelled]
            /\ \A i \in Limited :
                 availability'[i] # availability[i] => i \in OrderIngredients(o)]_vars

\* user 2 cancelled the sample order with ham: the order keeps its row and its ingredient
C30_Witness ==
  /\ AllIdle
  /\ SeededByInitDB
  /\ orders = [SeedOrders EXCEPT ![3].cancelled = 1]
  /\ order_ingredients = SeedOrderIngredients
  /\ releases[3] = 1

\* ------------------------------------------------------------ longer ingredient lists
\* the arrays over ReqIds without repetition, ids ascending, up to MaxWide long
RECURSIVE Ascending(_)
Ascending(S) ==
  IF S = {} THEN <<>>
  ELSE LET least == CHOOSE x \in S : \A y \in S : x <= y
       IN <<least>> \o Ascending(S \ {least})

\* request bodies that pass the express-validator checks, with longer arrays
WideBodies ==
  [dish_id : ReqDishes, size : ReqSizes, text : BOOLEAN,
   ingredients : {Ascending(S) : S \in {T \in SUBSET ReqIds : Cardinality(T) <= MaxWide}}]

\* the server with one request served at a time and the longer arrays
WideNext ==
  \E p \in Procs :
    \/ AllIdle /\ \E body \in WideBodies : PostOrders(p, body)
    \/ CreateOrder(p)
    \/ LinkIngredient(p)
    \/ ReserveGet(p)
    \/ ReserveRun(p)
    \/ Rollback(p)
    \/ RollbackName(p)
    \/ AllIdle /\ \E id \in 1..(Len(orders) + 1), method \in Methods : DeleteOrder(p, id, method)
    \/ CancelList(p)
    \/ CancelMark(p)
    \/ RestoreGet(p)
    \/ RestoreRun(p)

WideSpec == Init /\ [][WideNext]_vars

\* C29: a Confirmed order never has more ingredients recorded than its size
\* allows, whatever array the request carried.
C29_ConfirmedWithinCap ==
  \A o \in OrderIds :
     Confirmed(o) => Cardinality(OrderIngredients(o)) <= MaxIngredients(orders[o].size)

====
